---- MODULE Spec2Model ----
(***************************************************************************)
(* Model of the SWAPI -> Odoo migration of src/main.py.                    *)
(*                                                                         *)
(* Spec        : DataProcessor.process_data with its concurrent people(id) *)
(*               tasks, the three remote systems and the sink's records.   *)
(*               A task is atomic between two awaits of network I/O, so    *)
(*               one action is "a response arrives, the task runs up to    *)
(*               the next request it sends".  The number of tasks is below *)
(*               every semaphore capacity here, so an acquire never        *)
(*               suspends in Spec.                                         *)
(* SpecLimiter : the three asyncio.Semaphore limiters under more tasks     *)
(*               than their capacities; tasks are counted, not named.      *)
(* SpecLive    : the people tasks on full semaphores, with the tasks       *)
(*               suspended in acquire and the end of process_data, under   *)
(*               fairness; tasks are counted, not named.                   *)
(* SpecPlanetParams : the numeric fields of the create payload of planet().*)
(* SpecGetData : SWAPI.get_data(resource) for a collection.                *)
(* SpecImages  : SWIMG.get_data(ids) for a list of ids.                    *)
(***************************************************************************)
EXTENDS Integers, Sequences, FiniteSets, TLC

\* ---- bounds of the model ------------------------------------------------
NPeople == 2        \* the count the source declares for "people"
NPlanets == 2       \* the count the source declares for "planets"
MaxRuns == 2        \* process_data runs in sequence against the same sink
NTasksLim == 121    \* tasks of SpecLimiter (more than 50 + 50 + 20)
NItems == 3         \* the largest count of a collection of SpecGetData
NList == 3          \* the longest list of ids of SpecImages
NLive == 71         \* people tasks of SpecLive (more than 50 + 20)

\* ---- program constants --------------------------------------------------
SwapiLimit == 50
SwimgLimit == 50
OdooLimit == 20

People == 1..NPeople
Planets == 1..NPlanets
Systems == {"SWAPI", "SWIMG", "Odoo"}
None == 0           \* Python None / an empty search result / False

VARIABLES
    run,         \* number of the current process_data run
    mainPc,      \* position of process_data
    pc,          \* pc[id]: position of the task people(id)
    odooUid,     \* Odoo.uid (self.uid of Odoo.conn)
    dpUid,       \* DataProcessor.uid
    planetOdoo,  \* id_planet_odoo of people(id)
    planets,     \* sink: res.planet records, the sink id is the index
    partners,    \* sink: res.partner records, the sink id is the index
    sem,         \* free slots of the semaphore of each system
    inflight,    \* requests inside "async with semaphore" of each system
    issued,      \* kinds of request sent during the current run
    base,        \* the sink's planet and partner counts when the run started
    prev,        \* how the previous run ended ("none" before the first)
    raisedBy,    \* the task whose exception process_data re-raised, or None
    noRecord,    \* planet ids whose GET returned no record in this run
    idle,        \* SpecLimiter: tasks outside every request
    swapi_planet,  \* SpecPlanetParams: the record planet() got from the source
    params,      \* SpecPlanetParams: the numeric fields of the create payload
    gdPc,        \* SpecGetData: position of SWAPI.get_data(resource)
    gdCount,     \* SpecGetData: count returned by get_count
    gdTasks,     \* SpecGetData: state of the fetch_data task of each url
    gdResults,   \* SpecGetData: the list get_data returned
    ids,         \* SpecImages: the list given to SWIMG.get_data
    imgPc,       \* SpecImages: position of SWIMG.get_data(ids)
    imgTasks,    \* SpecImages: what fetch_and_validate got, by position
    results,     \* SpecImages: the dict results of get_data
    imgOrder,    \* SpecImages: the positions in the order of completion
    imgOut,      \* SpecImages: the list get_data returned
    waiting,     \* SpecLive: tasks suspended in semaphore.acquire, by system
    ended,       \* SpecLive: tasks that have returned or raised
    failed       \* SpecLive: a task has ended with an exception

\* the variables of the specifications of single functions
planetVars == <<swapi_planet, params>>
getDataVars == <<gdPc, gdCount, gdTasks, gdResults>>
imgVars == <<ids, imgPc, imgTasks, results, imgOrder, imgOut>>
liveVars == <<waiting, ended, failed>>
aux == <<planetVars, getDataVars, imgVars, liveVars>>

vars == <<run, mainPc, pc, odooUid, dpUid, planetOdoo, planets, partners,
          sem, inflight, issued, base, prev, raisedBy, noRecord, idle, aux>>

\* ---- the source's data --------------------------------------------------
\* homeworld link of people/{id}: its trailing path segment
Homeworld(id) == ((((id + 1) \div 2) - 1) % NPlanets) + 1

PersonName(id) == id
PlanetName(p) == p

\* ---- semaphores ---------------------------------------------------------
Capacity(sys) ==
    CASE sys = "SWAPI" -> SwapiLimit
      [] sys = "SWIMG" -> SwimgLimit
      [] sys = "Odoo" -> OdooLimit

\* a limiter that lets every request through
CanAcquireUnchecked(sys) == TRUE

\* asyncio.Semaphore.acquire: takes a slot only when one is free
CanAcquire(sys) == sem[sys] > 0

Acquire(s, sys) == [s EXCEPT ![sys] = @ - 1]
Release(s, sys) == [s EXCEPT ![sys] = @ + 1]
Enter(f, sys) == [f EXCEPT ![sys] = @ + 1]
Leave(f, sys) == [f EXCEPT ![sys] = @ - 1]

\* a response of system "from" arrives and the task sends a request to "to"
Hop(from, to) ==
    /\ sem' = Acquire(Release(sem, from), to)
    /\ inflight' = Enter(Leave(inflight, from), to)

\* a way out of "async with" that keeps the slot
ExitKeepingSlot(from) ==
    /\ sem' = sem
    /\ inflight' = Leave(inflight, from)

\* a response of system "from" arrives and the task sends nothing more
Exit(from) ==
    /\ sem' = Release(sem, from)
    /\ inflight' = Leave(inflight, from)

\* ---- the sink -----------------------------------------------------------
\* Odoo "search" on [('name', '=', name)]: the ids of the matching records
Search(records, name) == {i \in DOMAIN records : records[i].name = name}

Min(S) == CHOOSE i \in S : \A j \in S : i <= j

\* a lookup that never finds a record
find_by_name_blind(records, name) == None

\* Odoo.find_by_name: result[0] of a non-empty result, else None
find_by_name(records, name) ==
    IF Search(records, name) # {} THEN Min(Search(records, name)) ELSE None

\* params of the planet create of DataProcessor.planet
PlanetParams(p) == [name |-> PlanetName(p)]

\* params of the person create of DataProcessor.people
PeopleParams(id) ==
    [name |-> PersonName(id), planet |-> planetOdoo[id], image |-> TRUE]

\* ---- outcomes of the remote systems -------------------------------------
\* SWAPI.fetch_data: 200 with a record, another status, or a network error
SwapiOutcomes == {"ok", "non200", "neterr"}

\* SWIMG.fetch + is_valid_image: decodable bytes, undecodable bytes, error
SwimgOutcomes == {"valid", "invalid", "neterr"}

\* Odoo.json_rpc: a result, or an error envelope raised as an exception
OdooOutcomes == {"ok", "error"}

\* the login call: a uid, False, or an error envelope
LoginOutcomes == {"uid", "false", "error"}

TheUid == 2

Errors == {"err_net", "err_sink", "err_image"}

\* the task is between its first request and its end
TaskLive(id) == pc[id] \notin {"init", "done", "cancelled"} \cup Errors

\* the system whose request a task position waits for
SystemOf(p) ==
    CASE p \in {"fetch_people", "fetch_planet"} -> "SWAPI"
      [] p = "fetch_img" -> "SWIMG"
      [] OTHER -> "Odoo"

\* no single-function specification is running
PlanetIdle == swapi_planet = <<>> /\ params = <<>>

GetDataIdle ==
    gdPc = "idle" /\ gdCount = 0 /\ gdTasks = <<>> /\ gdResults = <<>>

ImagesIdle ==
    /\ ids = <<>> /\ imgPc = "idle" /\ imgTasks = <<>> /\ results = <<>>
    /\ imgOrder = <<>> /\ imgOut = <<>>

LiveIdle ==
    /\ waiting = [sys \in Systems |-> 0] /\ ended = 0 /\ failed = FALSE

AuxIdle == PlanetIdle /\ GetDataIdle /\ ImagesIdle /\ LiveIdle

InitMain ==
    /\ run = 1
    /\ mainPc = "idle"
    /\ pc = [id \in People |-> "init"]
    /\ odooUid = None
    /\ dpUid = None
    /\ planetOdoo = [id \in People |-> None]
    /\ planets = <<>>
    /\ partners = <<>>
    /\ sem = [sys \in Systems |-> Capacity(sys)]
    /\ inflight = [sys \in Systems |-> 0]
    /\ issued = {}
    /\ base = <<0, 0>>
    /\ prev = "none"
    /\ raisedBy = None
    /\ noRecord = {}
    /\ idle = 0

Init == InitMain /\ AuxIdle

\* ---- process_data -------------------------------------------------------
\* process_data calls Odoo.conn, which sends the login call
ConnCall ==
    /\ mainPc = "idle"
    /\ CanAcquire("Odoo")
    /\ mainPc' = "login"
    /\ sem' = Acquire(sem, "Odoo")
    /\ inflight' = Enter(inflight, "Odoo")
    /\ issued' = issued \cup {"login"}
    /\ UNCHANGED <<aux, run, pc, odooUid, dpUid, planetOdoo, planets, partners,
                   base, prev, raisedBy, noRecord, idle>>

\* a conn that accepts a falsy uid
ConnRaisesOnErrorOnly(outcome) == outcome = "error"

\* what Odoo.conn does with the reply of the login call: an error envelope
\* or a falsy uid raises
ConnRaises(outcome) == outcome # "uid"

\* the login reply arrives: Odoo.conn returns the uid and process_data asks
\* the source for the people count, or Odoo.conn raises
ConnReturn ==
    /\ mainPc = "login"
    /\ \E outcome \in LoginOutcomes :
        /\ odooUid' = (CASE outcome = "uid" -> TheUid
                         [] outcome = "false" -> None
                         [] outcome = "error" -> odooUid)
        /\ IF ConnRaises(outcome)
              THEN /\ mainPc' = "raised"
                   /\ Exit("Odoo")
                   /\ UNCHANGED <<dpUid, issued>>
              ELSE /\ mainPc' = "count"
                   /\ dpUid' = odooUid'
                   /\ Hop("Odoo", "SWAPI")
                   /\ issued' = issued \cup {"source"}
    /\ UNCHANGED <<aux, run, pc, planetOdoo, planets, partners, base, prev, raisedBy,
                   noRecord, idle>>

\* the reply of SWAPI.get_count arrives: the tasks people(1..count) are made
\* and each one runs up to the GET of people/{id}
CountReturn ==
    /\ mainPc = "count"
    /\ \E outcome \in SwapiOutcomes :
        IF outcome = "ok"
           THEN /\ mainPc' = "gather"
                /\ pc' = [id \in People |-> "fetch_people"]
                /\ sem' = [Release(sem, "SWAPI") EXCEPT !["SWAPI"] = @ - NPeople]
                /\ inflight' = [Leave(inflight, "SWAPI") EXCEPT
                                  !["SWAPI"] = @ + NPeople]
           ELSE /\ mainPc' = "raised"
                /\ Exit("SWAPI")
                /\ UNCHANGED pc
    /\ UNCHANGED <<aux, run, odooUid, dpUid, planetOdoo, planets, partners,
                   issued, base, prev, raisedBy, noRecord, idle>>

\* ---- people(id) ---------------------------------------------------------
frame == <<aux, run, mainPc, odooUid, dpUid, base, prev, raisedBy, noRecord, idle>>

\* people/{id} arrives: no record returns, a record goes on to the search
\* of the person's name in res.partner
PeopleFetched(id) ==
    /\ mainPc = "gather"
    /\ pc[id] = "fetch_people"
    /\ \E outcome \in SwapiOutcomes :
        CASE outcome = "ok" ->
                /\ pc' = [pc EXCEPT ![id] = "search_people"]
                /\ Hop("SWAPI", "Odoo")
                /\ issued' = issued \cup {"search"}
          [] outcome = "non200" ->
                /\ pc' = [pc EXCEPT ![id] = "done"]
                /\ Exit("SWAPI")
                /\ UNCHANGED issued
          [] outcome = "neterr" ->
                /\ pc' = [pc EXCEPT ![id] = "err_net"]
                /\ Exit("SWAPI")
                /\ UNCHANGED issued
    /\ UNCHANGED <<frame, planetOdoo, planets, partners>>

\* the search of the person arrives: an existing person returns, otherwise
\* planet(homeworld) is called and sends its GET
PeopleSearched(id) ==
    /\ mainPc = "gather"
    /\ pc[id] = "search_people"
    /\ \E outcome \in OdooOutcomes :
        IF outcome = "error"
           THEN /\ pc' = [pc EXCEPT ![id] = "err_sink"]
                /\ Exit("Odoo")
                /\ UNCHANGED issued
           ELSE IF find_by_name(partners, PersonName(id)) # None
                   THEN /\ pc' = [pc EXCEPT ![id] = "done"]
                        /\ Exit("Odoo")
                        /\ UNCHANGED issued
                   ELSE /\ pc' = [pc EXCEPT ![id] = "fetch_planet"]
                        /\ Hop("Odoo", "SWAPI")
                        /\ issued' = issued \cup {"source"}
    /\ UNCHANGED <<frame, planetOdoo, planets, partners>>

\* what planet(id) does when its fetch returned no record: it returns None
\* and people(id) goes on to the image
PlanetMissing(id) ==
    /\ pc' = [pc EXCEPT ![id] = "fetch_img"]
    /\ planetOdoo' = [planetOdoo EXCEPT ![id] = None]
    /\ noRecord' = noRecord \cup {Homeworld(id)}
    /\ Hop("SWAPI", "SWIMG")
    /\ issued' = issued \cup {"asset"}

\* planets/{homeworld} arrives inside planet(): no record returns None to
\* people(id), a record goes on to the search of the planet's name
PlanetFetched(id) ==
    /\ mainPc = "gather"
    /\ pc[id] = "fetch_planet"
    /\ \E outcome \in SwapiOutcomes :
        CASE outcome = "ok" ->
                /\ pc' = [pc EXCEPT ![id] = "search_planet"]
                /\ Hop("SWAPI", "Odoo")
                /\ issued' = issued \cup {"search"}
                /\ UNCHANGED <<planetOdoo, noRecord>>
          [] outcome = "non200" -> PlanetMissing(id)
          [] outcome = "neterr" ->
                /\ pc' = [pc EXCEPT ![id] = "err_net"]
                /\ Exit("SWAPI")
                /\ UNCHANGED <<issued, planetOdoo, noRecord>>
    /\ UNCHANGED <<aux, run, mainPc, odooUid, dpUid, base, prev, raisedBy, idle,
                   planets, partners>>

\* the search of the planet arrives: an existing planet is returned to
\* people(id), which asks for the image; otherwise the planet create is sent
PlanetSearched(id) ==
    /\ mainPc = "gather"
    /\ pc[id] = "search_planet"
    /\ \E outcome \in OdooOutcomes :
        IF outcome = "error"
           THEN /\ pc' = [pc EXCEPT ![id] = "err_sink"]
                /\ Exit("Odoo")
                /\ UNCHANGED <<issued, planetOdoo>>
           ELSE IF find_by_name(planets, PlanetName(Homeworld(id))) # None
                   THEN /\ pc' = [pc EXCEPT ![id] = "fetch_img"]
                        /\ planetOdoo' = [planetOdoo EXCEPT ![id] =
                              find_by_name(planets, PlanetName(Homeworld(id)))]
                        /\ Hop("Odoo", "SWIMG")
                        /\ issued' = issued \cup {"asset"}
                   ELSE /\ pc' = [pc EXCEPT ![id] = "create_planet"]
                        /\ Hop("Odoo", "Odoo")
                        /\ issued' = issued \cup {"create"}
                        /\ UNCHANGED planetOdoo
    /\ UNCHANGED <<frame, planets, partners>>

\* the planet create arrives: planet() returns the new id and people(id)
\* asks for the image
PlanetCreated(id) ==
    /\ mainPc = "gather"
    /\ pc[id] = "create_planet"
    /\ \E outcome \in OdooOutcomes :
        IF outcome = "error"
           THEN /\ pc' = [pc EXCEPT ![id] = "err_sink"]
                /\ Exit("Odoo")
                /\ UNCHANGED <<issued, planetOdoo, planets>>
           ELSE /\ planets' = Append(planets, PlanetParams(Homeworld(id)))
                /\ planetOdoo' = [planetOdoo EXCEPT ![id] = Len(planets) + 1]
                /\ pc' = [pc EXCEPT ![id] = "fetch_img"]
                /\ Hop("Odoo", "SWIMG")
                /\ issued' = issued \cup {"asset"}
    /\ UNCHANGED <<frame, partners>>

\* what people(id) does with img_data = None: base64.b64encode(None) raises
\* TypeError before the create is sent
NoImage(id) ==
    /\ pc' = [pc EXCEPT ![id] = "err_image"]
    /\ planetOdoo' = [planetOdoo EXCEPT ![id] = None]
    /\ Exit("SWIMG")
    /\ UNCHANGED issued

\* the image arrives: validated bytes are encoded and the person create is
\* sent
ImageFetched(id) ==
    /\ mainPc = "gather"
    /\ pc[id] = "fetch_img"
    /\ \E outcome \in SwimgOutcomes :
        CASE outcome = "valid" ->
                /\ pc' = [pc EXCEPT ![id] = "create_people"]
                /\ Hop("SWIMG", "Odoo")
                /\ issued' = issued \cup {"create"}
                /\ UNCHANGED planetOdoo
          [] outcome = "invalid" -> NoImage(id)
          [] outcome = "neterr" ->
                /\ pc' = [pc EXCEPT ![id] = "err_net"]
                /\ planetOdoo' = [planetOdoo EXCEPT ![id] = None]
                /\ Exit("SWIMG")
                /\ UNCHANGED issued
    /\ UNCHANGED <<frame, planets, partners>>

\* the person create arrives and people(id) ends
PeopleCreated(id) ==
    /\ mainPc = "gather"
    /\ pc[id] = "create_people"
    /\ \E outcome \in OdooOutcomes :
        IF outcome = "error"
           THEN /\ pc' = [pc EXCEPT ![id] = "err_sink"]
                /\ UNCHANGED partners
           ELSE /\ partners' = Append(partners, PeopleParams(id))
                /\ pc' = [pc EXCEPT ![id] = "done"]
    /\ planetOdoo' = [planetOdoo EXCEPT ![id] = None]
    /\ Exit("Odoo")
    /\ UNCHANGED <<frame, planets, issued>>

\* ---- the end of process_data --------------------------------------------
\* the as_completed loop has awaited every task and none raised
ProcessDataReturn ==
    /\ mainPc = "gather"
    /\ \A id \in People : pc[id] = "done"
    /\ mainPc' = "returned"
    /\ UNCHANGED <<aux, run, pc, odooUid, dpUid, planetOdoo, planets, partners,
                   sem, inflight, issued, base, prev, raisedBy, noRecord, idle>>

\* "await coro" of the as_completed loop re-raises the exception of a task:
\* process_data raises, the event loop shuts down and cancels the tasks
\* that have not finished; a create already sent stays with the sink
ProcessDataRaise ==
    /\ mainPc = "gather"
    /\ \E id \in People :
        /\ pc[id] \in Errors
        /\ raisedBy' = id
    /\ mainPc' = "raised"
    /\ LET cancelled == {id \in People :
                            /\ pc[id] \notin {"done"} \cup Errors
                            /\ pc[id] \notin {"create_planet", "create_people"}}
           gone(sys) == Cardinality({id \in cancelled :
                            TaskLive(id) /\ SystemOf(pc[id]) = sys})
       IN /\ pc' = [id \in People |->
                      IF id \in cancelled THEN "cancelled" ELSE pc[id]]
          /\ sem' = [sys \in Systems |-> sem[sys] + gone(sys)]
          /\ inflight' = [sys \in Systems |-> inflight[sys] - gone(sys)]
          /\ planetOdoo' = [id \in People |->
                              IF id \in cancelled THEN None ELSE planetOdoo[id]]
    /\ UNCHANGED <<aux, run, odooUid, dpUid, planets, partners,
                   issued, base, prev, noRecord, idle>>

\* a create that was in flight when process_data raised: the sink has
\* applied it or not, the reply reaches nobody
AbandonedCreate(id) ==
    /\ mainPc = "raised"
    /\ pc[id] \in {"create_planet", "create_people"}
    /\ \E applied \in BOOLEAN :
        /\ planets' = IF applied /\ pc[id] = "create_planet"
                         THEN Append(planets, PlanetParams(Homeworld(id)))
                         ELSE planets
        /\ partners' = IF applied /\ pc[id] = "create_people"
                          THEN Append(partners, PeopleParams(id))
                          ELSE partners
    /\ pc' = [pc EXCEPT ![id] = "cancelled"]
    /\ planetOdoo' = [planetOdoo EXCEPT ![id] = None]
    /\ Exit("Odoo")
    /\ UNCHANGED <<frame, issued>>

\* the program has ended (process_data returned or raised and the event loop
\* is closed) and it is run again against the same source and the same sink
NextRun ==
    /\ mainPc \in {"returned", "raised"}
    /\ \A id \in People : ~TaskLive(id)
    /\ run < MaxRuns
    /\ run' = run + 1
    /\ base' = <<Len(planets), Len(partners)>>
    /\ prev' = mainPc
    /\ mainPc' = "idle"
    /\ pc' = [id \in People |-> "init"]
    /\ odooUid' = None
    /\ dpUid' = None
    /\ planetOdoo' = [id \in People |-> None]
    /\ sem' = [sys \in Systems |-> Capacity(sys)]
    /\ inflight' = [sys \in Systems |-> 0]
    /\ issued' = {}
    /\ raisedBy' = None
    /\ noRecord' = {}
    /\ UNCHANGED <<aux, planets, partners, idle>>

Next ==
    \/ ConnCall
    \/ ConnReturn
    \/ CountReturn
    \/ \E id \in People : PeopleFetched(id)
    \/ \E id \in People : PeopleSearched(id)
    \/ \E id \in People : PlanetFetched(id)
    \/ \E id \in People : PlanetSearched(id)
    \/ \E id \in People : PlanetCreated(id)
    \/ \E id \in People : ImageFetched(id)
    \/ \E id \in People : PeopleCreated(id)
    \/ ProcessDataReturn
    \/ ProcessDataRaise
    \/ \E id \in People : AbandonedCreate(id)
    \/ NextRun

Spec == Init /\ [][Next]_vars

\* ---- the limiters under load --------------------------------------------
limframe == <<aux, run, mainPc, pc, odooUid, dpUid, planetOdoo, planets, partners,
              issued, base, prev, raisedBy, noRecord>>

InitLimiter ==
    /\ run = 1
    /\ mainPc = "gather"
    /\ pc = [id \in People |-> "init"]
    /\ odooUid = TheUid
    /\ dpUid = TheUid
    /\ planetOdoo = [id \in People |-> None]
    /\ planets = <<>>
    /\ partners = <<>>
    /\ sem = [sys \in Systems |-> Capacity(sys)]
    /\ inflight = [sys \in Systems |-> 0]
    /\ issued = {}
    /\ base = <<0, 0>>
    /\ prev = "none"
    /\ raisedBy = None
    /\ noRecord = {}
    /\ idle = NTasksLim
    /\ AuxIdle

\* "async with self.semaphore" is entered by a task that has a request to
\* send to sys; it suspends while no slot is free
LimEnter(sys) ==
    /\ idle > 0
    /\ CanAcquire(sys)
    /\ idle' = idle - 1
    /\ sem' = Acquire(sem, sys)
    /\ inflight' = Enter(inflight, sys)
    /\ UNCHANGED limframe

\* the request ends (a reply, another status, an exception) and the
\* "async with" block is left
LimLeave(sys) ==
    /\ inflight[sys] > 0
    /\ idle' = idle + 1
    /\ sem' = Release(sem, sys)
    /\ inflight' = Leave(inflight, sys)
    /\ UNCHANGED limframe

NextLimiter ==
    \/ \E sys \in Systems : LimEnter(sys)
    \/ \E sys \in Systems : LimLeave(sys)

SpecLimiter == InitLimiter /\ [][NextLimiter]_vars

\* ---- properties ---------------------------------------------------------
ParentSteps == {"fetch_planet", "search_planet", "create_planet"}
ChildSteps == {"fetch_people", "search_people", "fetch_img", "create_people"}

NoDuplicateName(records) ==
    \A i, j \in DOMAIN records : i # j => records[i].name # records[j].name

\* C1: the sink never holds two res.planet or two res.partner records with
\* the same name (at most one create per model and name).
C1_OneRecordPerName == NoDuplicateName(planets) /\ NoDuplicateName(partners)

\* C2 (as stated): when process_data returned in the run before and in this
\* one, the sink holds as many records of each model as when this run began
\* (stated for sinks in which every partner references a planet, so that the
\* case does not rest on a child created without its planet).
C2_SameCountAfterSecondRun ==
    (/\ run >= 2
     /\ prev = "returned"
     /\ mainPc = "returned"
     /\ \A i \in DOMAIN partners : partners[i].planet \in DOMAIN planets)
        => (Len(planets) = base[1] /\ Len(partners) = base[2])

\* the records added since the count was countAtStart have names that no
\* record present then has
NoRecreate(records, countAtStart) ==
    \A i, j \in DOMAIN records :
        (i <= countAtStart /\ j > countAtStart)
            => records[i].name # records[j].name

\* C2 (amended): a run creates no record for a name that the sink held at the
\* end of the run before; the counts grow only by names that were absent
\* then.
C2_NoRecreate ==
    /\ NoRecreate(planets, base[1])
    /\ NoRecreate(partners, base[2])

\* the second run has returned after finding the records of the first run
C2_Witness ==
    /\ run = 2
    /\ mainPc = "returned"
    /\ prev = "returned"
    /\ base[1] >= 1
    /\ base[2] = NPeople
    /\ Len(partners) = NPeople

\* C3: every res.partner record has a planet field that is the sink id of an
\* existing res.planet record.
C3_PartnerReferencesPlanet ==
    \A i \in DOMAIN partners : partners[i].planet \in DOMAIN planets

\* C4: no child step (people fetch, people search, asset fetch, people
\* create) is in flight while a parent step (planet fetch, search, create)
\* is in flight.
C4_PhaseBarrier ==
    \A a, b \in People : ~(pc[a] \in ParentSteps /\ pc[b] \in ChildSteps)

\* C5: an unavailable or invalid image never ends the task of its child
\* with an exception (the child is created without image).
C5_AssetFailureIsolated == \A id \in People : pc[id] # "err_image"

\* C6: process_data never raises the sink error of one search or create
\* call of a people task.
C6_SinkErrorNotFatal ==
    ~(mainPc = "raised" /\ raisedBy # None /\ pc[raisedBy] = "err_sink")

\* the login call was answered with an error envelope or a falsy uid
AuthRejected == mainPc \notin {"idle", "login"} /\ odooUid = None

\* C7: when the login is rejected process_data raises, and the run issues
\* no source, asset, search or create request and starts no task.
C7_AuthFailureNoWork ==
    AuthRejected =>
        /\ mainPc = "raised"
        /\ issued = {"login"}
        /\ \A id \in People : pc[id] = "init"

\* the login of a run was rejected and the run is over
C7_Witness == AuthRejected /\ mainPc = "raised" /\ issued = {"login"}

\* C8: at most 50 source, 50 asset and 20 sink requests are in flight, and
\* a task is held back by the limiter of its own system only.
C8_LimitsRespected ==
    /\ inflight["SWAPI"] <= SwapiLimit
    /\ inflight["SWIMG"] <= SwimgLimit
    /\ inflight["Odoo"] <= OdooLimit
    /\ \A sys \in Systems :
        (idle > 0 /\ inflight[sys] < Capacity(sys)) => ENABLED LimEnter(sys)

\* every limiter is full and one more task has a request to send
C8_Witness ==
    /\ inflight["SWAPI"] = SwapiLimit
    /\ inflight["SWIMG"] = SwimgLimit
    /\ inflight["Odoo"] = OdooLimit
    /\ idle > 0

\* C9: no res.partner create is sent for a child whose planet could not be
\* resolved to a sink id.
C9_UnresolvedParentSkipsChild ==
    \A id \in People : pc[id] = "create_people" => planetOdoo[id] # None

\* C10: when process_data returns, every planet of 1..count(planets) whose
\* fetch returns a record has a res.planet record of its name.
C10_EveryParentMigrated ==
    mainPc = "returned" =>
        \A p \in Planets \ noRecord : Search(planets, PlanetName(p)) # {}

\* people(id) or the planet() it called has just got a reply to its search
\* that holds a match
FoundPerson(id) ==
    /\ pc[id] = "search_people"
    /\ pc'[id] \notin {"search_people", "err_sink", "cancelled", "init"}
    /\ Search(partners, PersonName(id)) # {}

FoundPlanet(id) ==
    /\ pc[id] = "search_planet"
    /\ pc'[id] \notin {"search_planet", "err_sink", "cancelled", "init"}
    /\ Search(planets, PlanetName(Homeworld(id))) # {}

\* C11: when the search of a person or of a planet returns a match, the task
\* takes the existing sink id, sends no create for that record and leaves the
\* records of the sink as they are.
C11_FoundMeansNoWrite ==
    [][\A id \in People :
          /\ FoundPerson(id) =>
                /\ pc'[id] = "done"
                /\ issued' = issued
                /\ planets' = planets /\ partners' = partners
          /\ FoundPlanet(id) =>
                /\ pc'[id] = "fetch_img"
                /\ planetOdoo'[id] \in Search(planets, PlanetName(Homeworld(id)))
                /\ "create" \in issued' => "create" \in issued
                /\ planets' = planets /\ partners' = partners]_vars

\* in the second run one child was found in the sink and another child, not
\* yet in the sink, has been given the id of the planet that is already there
C11_Witness ==
    /\ run = 2
    /\ Len(planets) = base[1] /\ Len(partners) = base[2]
    /\ \E a, b \in People :
        /\ pc[a] = "done" /\ Search(partners, PersonName(a)) # {}
        /\ pc[b] = "fetch_img" /\ planetOdoo[b] \in DOMAIN planets

\* ---- the create payload of planet() ---------------------------------------
NumericFields == {"diameter", "population", "rotation_period", "orbital_period"}

\* what the source sends in a numeric field: the sentinel, a number, another
\* word, and "None" for a key that is absent (dict.get gives None)
PyNone == "None"
FieldValues == {"unknown", "10465", "n/a", PyNone}

\* a payload builder that passes every value on
PassOn(v) == v

\* "x if x != 'unknown' else None"
Normalise(v) == IF v # "unknown" THEN v ELSE PyNone

NumericParams(rec) == [f \in NumericFields |-> Normalise(rec[f])]

Built == DOMAIN params # {}

InitPlanetParams ==
    /\ InitMain
    /\ swapi_planet \in [NumericFields -> FieldValues]
    /\ params = <<>>
    /\ GetDataIdle
    /\ ImagesIdle
    /\ LiveIdle

\* planet() builds params from the record it fetched
BuildParams ==
    /\ ~Built
    /\ params' = NumericParams(swapi_planet)
    /\ UNCHANGED <<run, mainPc, pc, odooUid, dpUid, planetOdoo, planets,
                   partners, sem, inflight, issued, base, prev, raisedBy,
                   noRecord, idle, swapi_planet, getDataVars, imgVars,
                   liveVars>>

NextPlanetParams == BuildParams

SpecPlanetParams == InitPlanetParams /\ [][NextPlanetParams]_vars

\* C12: in the create payload of a planet each of diameter, population,
\* rotation_period and orbital_period that is "unknown" in the source is None,
\* no numeric field of the payload is "unknown", and every other value is the
\* source's value.
C12_SentinelNormalised ==
    Built => \A f \in NumericFields :
                /\ swapi_planet[f] = "unknown" => params[f] = PyNone
                /\ params[f] # "unknown"
                /\ swapi_planet[f] # "unknown" => params[f] = swapi_planet[f]

\* a payload built from a record with a sentinel and a number in it
C12_Witness ==
    /\ Built
    /\ swapi_planet["diameter"] = "unknown"
    /\ swapi_planet["population"] = "10465"
    /\ params["diameter"] = PyNone
    /\ params["population"] = "10465"

\* ---- SWAPI.get_data(resource) for a collection -----------------------------
mainVars == <<run, mainPc, pc, odooUid, dpUid, planetOdoo, planets, partners,
              issued, base, prev, raisedBy, noRecord, idle>>

\* the JSON of {resource}/{i}
Item(i) == i

InitGetData ==
    /\ InitMain
    /\ PlanetIdle
    /\ ImagesIdle
    /\ LiveIdle
    /\ gdPc = "start" /\ gdCount = 0 /\ gdTasks = <<>> /\ gdResults = <<>>

\* get_data calls get_count, which sends GET {resource}
GetDataCall ==
    /\ gdPc = "start"
    /\ CanAcquire("SWAPI")
    /\ gdPc' = "count"
    /\ sem' = Acquire(sem, "SWAPI")
    /\ inflight' = Enter(inflight, "SWAPI")
    /\ UNCHANGED <<mainVars, planetVars, imgVars, liveVars, gdCount, gdTasks,
                   gdResults>>

\* the reply to GET {resource}: with a count every fetch_data task is created
\* and sends its GET; json_data.get fails on the None of a non-200 reply
GetCountReturn ==
    /\ gdPc = "count"
    /\ \E outcome \in SwapiOutcomes :
        IF outcome = "ok"
        THEN \E count \in 0..NItems :
                /\ gdCount' = count
                /\ gdTasks' = [i \in 1..count |-> "inflight"]
                /\ gdPc' = "gather"
                /\ sem' = [sem EXCEPT !["SWAPI"] = @ + 1 - count]
                /\ inflight' = [inflight EXCEPT !["SWAPI"] = @ - 1 + count]
        ELSE /\ gdPc' = "raised"
             /\ sem' = Release(sem, "SWAPI")
             /\ inflight' = Leave(inflight, "SWAPI")
             /\ UNCHANGED <<gdCount, gdTasks>>
    /\ UNCHANGED <<mainVars, planetVars, imgVars, liveVars, gdResults>>

\* the reply to GET {resource}/{i}: the JSON, None for a status other than
\* 200, the exception of session.get for a network error
ItemFetched(i) ==
    /\ gdPc \in {"gather", "raised"}
    /\ i \in DOMAIN gdTasks
    /\ gdTasks[i] = "inflight"
    /\ \E outcome \in SwapiOutcomes :
        gdTasks' = [gdTasks EXCEPT ![i] =
                        CASE outcome = "ok" -> "record"
                          [] outcome = "non200" -> "none"
                          [] outcome = "neterr" -> "raised"]
    /\ sem' = Release(sem, "SWAPI")
    /\ inflight' = Leave(inflight, "SWAPI")
    /\ UNCHANGED <<mainVars, planetVars, imgVars, liveVars, gdPc, gdCount,
                   gdResults>>

\* asyncio.gather without return_exceptions hands the first exception of a
\* task to get_data, which does not catch it
GatherRaise ==
    /\ gdPc = "gather"
    /\ \E i \in DOMAIN gdTasks : gdTasks[i] = "raised"
    /\ gdPc' = "raised"
    /\ UNCHANGED <<mainVars, planetVars, imgVars, liveVars, sem, inflight,
                   gdCount, gdTasks, gdResults>>

\* every task has returned: gather gives the results in the order of urls
GatherReturn ==
    /\ gdPc = "gather"
    /\ \A i \in DOMAIN gdTasks : gdTasks[i] \in {"record", "none"}
    /\ gdResults' = [i \in 1..gdCount |->
                        IF gdTasks[i] = "record" THEN Item(i) ELSE None]
    /\ gdPc' = "returned"
    /\ UNCHANGED <<mainVars, planetVars, imgVars, liveVars, sem, inflight,
                   gdCount, gdTasks>>

NextGetData ==
    \/ GetDataCall
    \/ GetCountReturn
    \/ \E i \in 1..NItems : ItemFetched(i)
    \/ GatherRaise
    \/ GatherReturn

SpecGetData == InitGetData /\ [][NextGetData]_vars

\* C13: get_data(resource) for a collection is not aborted by the failed fetch
\* of one item, be it a status other than 200 or a network error: it returns
\* one entry per id of 1..count, None for the failed item and the record for
\* every other.
C13_ItemFailureDoesNotAbort ==
    /\ gdPc = "raised" => \A i \in DOMAIN gdTasks : gdTasks[i] # "raised"
    /\ gdPc = "returned" =>
          /\ Len(gdResults) = gdCount
          /\ \A i \in 1..gdCount :
                gdResults[i] = IF gdTasks[i] = "record" THEN Item(i) ELSE None

\* ---- SWIMG.get_data(ids) for a list ----------------------------------------
ImgIds == 1..NList

\* the lists of at most NList ids, repeated ids included
IdLists == UNION {[1..n -> ImgIds] : n \in 0..NList}

\* the bytes of {id}.jpg
Bytes(id) == id

\* the second element of the pair fetch_and_validate returned at position j
Got(j) == IF imgTasks[j] = "valid" THEN Bytes(ids[j]) ELSE None

\* results[id] = result
Store(dict, id, result) ==
    [k \in DOMAIN dict \cup {id} |-> IF k = id THEN result ELSE dict[k]]

\* a list read from the dict against the order of ids
ResultListReversed(dict, idlist) ==
    [i \in 1..Len(idlist) |-> dict[idlist[Len(idlist) + 1 - i]]]

\* [results[id] for id in ids]
ResultList(dict, idlist) == [i \in 1..Len(idlist) |-> dict[idlist[i]]]

InitImages ==
    /\ InitMain
    /\ PlanetIdle
    /\ GetDataIdle
    /\ LiveIdle
    /\ ids \in IdLists
    /\ imgPc = "start"
    /\ imgTasks = <<>> /\ results = <<>> /\ imgOrder = <<>> /\ imgOut = <<>>

\* get_data creates one fetch_and_validate per position; as_completed starts
\* them and each sends its GET
ImagesCall ==
    /\ imgPc = "start"
    /\ imgPc' = "loop"
    /\ imgTasks' = [i \in 1..Len(ids) |-> "inflight"]
    /\ sem' = [sem EXCEPT !["SWIMG"] = @ - Len(ids)]
    /\ inflight' = [inflight EXCEPT !["SWIMG"] = @ + Len(ids)]
    /\ UNCHANGED <<mainVars, planetVars, getDataVars, liveVars, ids, results, imgOrder,
                   imgOut>>

\* the task of position i completes and is the next one the loop awaits: its
\* pair is stored under its id, its exception leaves get_data
ImageDone(i) ==
    /\ imgPc = "loop"
    /\ i \in DOMAIN imgTasks
    /\ imgTasks[i] = "inflight"
    /\ \E outcome \in SwimgOutcomes :
        /\ imgTasks' = [imgTasks EXCEPT ![i] = outcome]
        /\ IF outcome = "neterr"
           THEN /\ imgPc' = "raised"
                /\ UNCHANGED results
           ELSE /\ results' = Store(results, ids[i],
                                    IF outcome = "valid"
                                    THEN Bytes(ids[i]) ELSE None)
                /\ UNCHANGED imgPc
    /\ imgOrder' = Append(imgOrder, i)
    /\ sem' = Release(sem, "SWIMG")
    /\ inflight' = Leave(inflight, "SWIMG")
    /\ UNCHANGED <<mainVars, planetVars, getDataVars, liveVars, ids, imgOut>>

\* the loop is over: the list is read from the dict in the order of ids
ImagesReturn ==
    /\ imgPc = "loop"
    /\ \A i \in DOMAIN imgTasks : imgTasks[i] \in {"valid", "invalid"}
    /\ imgOut' = ResultList(results, ids)
    /\ imgPc' = "returned"
    /\ UNCHANGED <<mainVars, planetVars, getDataVars, liveVars, sem, inflight, ids,
                   imgTasks, results, imgOrder>>

NextImages ==
    \/ ImagesCall
    \/ \E i \in 1..NList : ImageDone(i)
    \/ ImagesReturn

SpecImages == InitImages /\ [][NextImages]_vars

\* C15: whatever the list of ids and the order in which the fetches complete,
\* the list get_data(ids) returns has the length of ids and its i-th element
\* is the payload, or None, that a fetch of ids[i] obtained.
C15_AlignedWithIds ==
    imgPc = "returned" =>
        /\ Len(imgOut) = Len(ids)
        /\ \A i \in 1..Len(ids) :
              \E j \in 1..Len(ids) : ids[j] = ids[i] /\ imgOut[i] = Got(j)

\* a list of different ids whose last fetch completed first, with an image
\* for the first id and none for the last
C15_Witness ==
    /\ imgPc = "returned"
    /\ Len(ids) = NList
    /\ \A i, j \in 1..Len(ids) : i # j => ids[i] # ids[j]
    /\ imgOrder[1] = Len(ids)
    /\ imgOut[1] = Bytes(ids[1])
    /\ imgOut[Len(ids)] = None

\* ---- the end of a run --------------------------------------------------------
\* process_data has ended after it created the people tasks
RunOver == mainPc \in {"returned", "raised"} /\ \E id \in People : pc[id] # "init"

\* C14: a run that logged in and started its children completes, even when
\* children failed, and at its end every child id of 1..count is in exactly
\* one of migrated, skipped (its task ended without exception) and failed
\* (its task ended with an exception).
C14_RunAccountsForEveryChild ==
    /\ ~(mainPc = "raised" /\ raisedBy # None)
    /\ RunOver => \A id \in People : pc[id] \in {"done"} \cup Errors

\* ---- a child whose record is not fetched -----------------------------------
\* people(id) is past the reply to GET people/{id}
PastFetch(id) == pc[id] \notin {"init", "fetch_people"}

\* C16: a child whose GET people/{id} gives no record or fails is skipped. As
\* long as the run has sent no search, every task that is past its fetch is
\* such a child: it has ended without an exception and without a further
\* request, and the run goes on with the other children.
C16_FailedFetchIsSkipped ==
    "search" \notin issued =>
        \A id \in People : PastFetch(id) => pc[id] = "done" /\ mainPc # "raised"

\* ---- the uid of the sink calls ---------------------------------------------
SearchSteps == {"search_people", "search_planet"}
CreateSteps == {"create_planet", "create_people"}

\* C17: each execution of process_data sends exactly one login call, and every
\* search or create of the sink is sent after that login returned a uid and
\* carries that uid (find_by_name sends Odoo.uid, create the uid of
\* DataProcessor).
C17_LoginOnceBeforeSinkCalls ==
    /\ [](\A id \in People :
            /\ pc[id] \in SearchSteps => "login" \in issued /\ odooUid = TheUid
            /\ pc[id] \in CreateSteps => "login" \in issued /\ dpUid = TheUid)
    /\ [](issued \cap {"search", "create"} # {} => "login" \in issued)
    /\ [](mainPc \notin {"idle", "login"} => "login" \in issued)
    /\ [][mainPc' = "login" /\ mainPc # "login" => "login" \notin issued]_vars

\* the second run has a person create in flight with the uid of its login
C17_Witness ==
    /\ run = 2
    /\ "login" \in issued
    /\ \E id \in People : pc[id] = "create_people" /\ dpUid = TheUid

\* ---- the slots of the semaphores -------------------------------------------
\* the requests of a system that have been sent and not answered, as the
\* positions of process_data and of the tasks give them
Requests(sys) ==
    Cardinality({id \in People : TaskLive(id) /\ SystemOf(pc[id]) = sys})
    + (IF sys = "Odoo" /\ mainPc = "login" THEN 1 ELSE 0)
    + (IF sys = "SWAPI" /\ mainPc = "count" THEN 1 ELSE 0)

\* C19: every way out of fetch_data, SWIMG.fetch and json_rpc (a return, a
\* status other than 200, the exception of an error envelope, a network
\* error) gives the slot back: whenever no request of a system is in flight
\* its semaphore has its initial capacity free, and at any time the free
\* slots are the capacity less the requests in flight.
C19_NoSlotLeaked ==
    \A sys \in Systems :
        /\ Requests(sys) = 0 => sem[sys] = Capacity(sys)
        /\ sem[sys] = Capacity(sys) - Requests(sys)

\* one task ended on an error envelope of the sink, another on a network
\* error, nothing is in flight and every slot is free
C19_Witness ==
    /\ \E a, b \in People : pc[a] = "err_sink" /\ pc[b] = "err_net"
    /\ \A sys \in Systems : Requests(sys) = 0 /\ sem[sys] = Capacity(sys)

\* ---- the order of the calls of one task ------------------------------------
\* people(id) sends the request of position p in this step
Sends(id, p) == pc'[id] = p /\ pc[id] # p

\* C20: people(id) sends its res.partner create only when its image fetch has
\* returned, the image fetch only when the planet resolution has returned
\* (no record, a match, or the reply to the planet create), and the planet
\* fetch only when its own search returned no match; while its person create
\* is in flight the planet it resolved is already a record of the sink, so
\* the two creates of one task are never in flight together.
C20_CallOrder ==
    /\ [][\A id \in People :
            /\ Sends(id, "create_people") => pc[id] = "fetch_img"
            /\ Sends(id, "fetch_img") =>
                  pc[id] \in {"fetch_planet", "search_planet", "create_planet"}
            /\ Sends(id, "create_planet") => pc[id] = "search_planet"
            /\ Sends(id, "search_planet") => pc[id] = "fetch_planet"
            /\ Sends(id, "fetch_planet") =>
                  /\ pc[id] = "search_people"
                  /\ Search(partners, PersonName(id)) = {}]_vars
    /\ [](\A id \in People :
            pc[id] = "create_people" /\ planetOdoo[id] # None =>
                planetOdoo[id] \in DOMAIN planets)

\* a person create in flight in a task that created its planet in this run
C20_Witness ==
    \E id \in People :
        /\ pc[id] = "create_people"
        /\ planetOdoo[id] \in DOMAIN planets
        /\ planetOdoo[id] > base[1]
        /\ Search(partners, PersonName(id)) = {}

\* ---- people tasks on full semaphores ----------------------------------------
\* SpecLive has NLive people tasks of which only the place is kept: in a
\* request of a system, suspended in the acquire of a system, or ended.

\* the systems of the request people(id) can send after a reply of "from":
\* the search after the fetch of the person, the image after a planet with no
\* record; the planet fetch, the planet create and the image after a search
\* or a planet create; the person create after the image
Follows(from) ==
    CASE from = "SWAPI" -> {"Odoo", "SWIMG"}
      [] from = "Odoo" -> {"SWAPI", "Odoo", "SWIMG"}
      [] from = "SWIMG" -> {"Odoo"}

\* how people(id) can end on a reply of "from": it returns on a person with
\* no record, on a person found and after its create; it raises on a
\* network error, on an error envelope and on an image that is not valid
Endings(from) ==
    CASE from = "SWAPI" -> {"end", "raise"}
      [] from = "Odoo" -> {"end", "raise"}
      [] from = "SWIMG" -> {"raise"}

\* a release that wakes no task
WokenNobody(from) == FALSE

\* Semaphore.release: the freed slot goes to a task suspended in the acquire
\* of that semaphore when there is one
Woken(from) == waiting[from] > 0

\* the semaphores after the slot of "from" was given back
SemFreed(from) == IF Woken(from) THEN sem ELSE Release(sem, from)
FlyFreed(from) == IF Woken(from) THEN inflight ELSE Leave(inflight, from)
WaitFreed(from) ==
    IF Woken(from) THEN [waiting EXCEPT ![from] = @ - 1] ELSE waiting

\* process_data has created the NLive tasks: each asks for a slot of the
\* source, and those that find none are suspended
InitLive ==
    /\ run = 1
    /\ mainPc = "gather"
    /\ pc = [id \in People |-> "init"]
    /\ odooUid = TheUid
    /\ dpUid = TheUid
    /\ planetOdoo = [id \in People |-> None]
    /\ planets = <<>>
    /\ partners = <<>>
    /\ issued = {}
    /\ base = <<0, 0>>
    /\ prev = "none"
    /\ raisedBy = None
    /\ noRecord = {}
    /\ idle = 0
    /\ PlanetIdle /\ GetDataIdle /\ ImagesIdle
    /\ LET flying == IF NLive < SwapiLimit THEN NLive ELSE SwapiLimit
       IN /\ inflight = [sys \in Systems |->
                            IF sys = "SWAPI" THEN flying ELSE 0]
          /\ sem = [sys \in Systems |->
                            IF sys = "SWAPI" THEN SwapiLimit - flying
                            ELSE Capacity(sys)]
          /\ waiting = [sys \in Systems |->
                            IF sys = "SWAPI" THEN NLive - flying ELSE 0]
    /\ ended = 0
    /\ failed = FALSE

liveframe == <<run, pc, odooUid, dpUid, planetOdoo, planets, partners, issued,
               base, prev, raisedBy, noRecord, idle, planetVars, getDataVars,
               imgVars>>

\* the reply to a request of "from": the task gives the slot back and asks
\* for a slot of "to", where it is suspended when none is free
TaskHops(from, to) ==
    /\ mainPc = "gather"
    /\ inflight[from] > 0
    /\ to \in Follows(from)
    /\ IF SemFreed(from)[to] > 0
       THEN /\ sem' = Acquire(SemFreed(from), to)
            /\ inflight' = Enter(FlyFreed(from), to)
            /\ waiting' = WaitFreed(from)
       ELSE /\ sem' = SemFreed(from)
            /\ inflight' = FlyFreed(from)
            /\ waiting' = [WaitFreed(from) EXCEPT ![to] = @ + 1]
    /\ UNCHANGED <<liveframe, mainPc, ended, failed>>

\* the reply to a request of "from": the task gives the slot back and
\* returns ("end") or raises ("raise")
TaskEnds(from, how) ==
    /\ mainPc = "gather"
    /\ inflight[from] > 0
    /\ how \in Endings(from)
    /\ sem' = SemFreed(from)
    /\ inflight' = FlyFreed(from)
    /\ waiting' = WaitFreed(from)
    /\ ended' = ended + 1
    /\ failed' = (failed \/ how = "raise")
    /\ UNCHANGED <<liveframe, mainPc>>

\* the as_completed loop has awaited every task and none raised
LiveReturn ==
    /\ mainPc = "gather"
    /\ ended = NLive /\ ~failed
    /\ mainPc' = "returned"
    /\ UNCHANGED <<liveframe, sem, inflight, liveVars>>

\* "await coro" re-raises the exception of a task; the event loop shuts down
\* and cancels the tasks that have not finished, which frees their slots
LiveRaise ==
    /\ mainPc = "gather"
    /\ failed
    /\ mainPc' = "raised"
    /\ waiting' = [sys \in Systems |-> 0]
    /\ inflight' = [sys \in Systems |-> 0]
    /\ sem' = [sys \in Systems |-> Capacity(sys)]
    /\ UNCHANGED <<liveframe, ended, failed>>

NextLive ==
    \/ \E from, to \in Systems : TaskHops(from, to)
    \/ \E from \in Systems, how \in {"end", "raise"} : TaskEnds(from, how)
    \/ LiveReturn
    \/ LiveRaise

\* a task ends on the reply to its request
SomeTaskEnds ==
    \E from \in Systems, how \in {"end", "raise"} : TaskEnds(from, how)

\* every request is answered, and a people task sends at most seven requests
\* (people() and planet() have no loop), so the tasks cannot go on for ever
\* asking for a next slot: as long as a request is in flight a task ends;
\* the event loop runs process_data when the tasks have ended
LiveFair ==
    /\ WF_vars(SomeTaskEnds)
    /\ WF_vars(LiveReturn)
    /\ WF_vars(LiveRaise)

SpecLive == InitLive /\ [][NextLive]_vars /\ LiveFair

\* process_data has returned, with every task ended, or raised
Terminated ==
    \/ mainPc = "returned" /\ ended = NLive
    \/ mainPc = "raised"

\* C18: when every request is answered, every people task ends and
\* process_data returns or raises, with more children than a semaphore has
\* slots; a task suspended in acquire holds no slot, so every slot in use
\* belongs to a request in flight, and a task is suspended only while its
\* semaphore has no free slot.
C18_TerminatesWithoutDeadlock ==
    /\ <>Terminated
    /\ [](\A sys \in Systems :
            /\ Capacity(sys) - sem[sys] = inflight[sys]
            /\ waiting[sys] > 0 => sem[sys] = 0)

\* every slot of the source and of the sink is in use and a task is
\* suspended in the acquire of the sink
C18_Witness ==
    /\ mainPc = "gather"
    /\ inflight["SWAPI"] = SwapiLimit
    /\ inflight["Odoo"] = OdooLimit
    /\ waiting["Odoo"] > 0

====
